---- MODULE Spec2Model ----
(***************************************************************************)
(* A model of evaluate_queries.py: the query executor (execute_query), the *)
(* result comparator (compare_query_results) and the evaluation driver     *)
(* (evaluate_queries); and of the generation programs: main_deepseek.py    *)
(* (SQLAgent, process_queries) and main.py (generate_sqls).                *)
(*                                                                         *)
(* Python values are tagged records, so that None, the empty string and a  *)
(* DataFrame stay distinct values:                                         *)
(*   None               [kind |-> "None"]                                  *)
(*   str                [kind |-> "str", s |-> ...]                        *)
(*   pandas.DataFrame   [kind |-> "DataFrame", columns, dtypes, index,     *)
(*                       values], values a sequence of rows, each row a    *)
(*                       sequence of cells aligned with columns            *)
(* A fetched result (cur.fetchall() of a RealDictCursor) is a sequence of  *)
(* rows; a row is a sequence of <<column name, cell>> in select-list       *)
(* order; a cell is [t |-> python type, v |-> numeric value].              *)
(***************************************************************************)
EXTENDS Integers, Sequences, FiniteSets, TLC

\* ------------------------------------------------------------------ bounds
\* the longest input collection (items of nl_test.json / of the output file)
MaxItems == 2
\* the most rows a fetched result set holds
MaxRows == 2

\* ------------------------------------------------------------ value domain
ColNames == {"a", "b"}
CellValues == {10, 11}
PyTypes == {"int", "float"}
Prompts == {"p", "q"}
ErrorTexts == {"", "syntax error"}

NoneVal == [kind |-> "None"]
Str(s) == [kind |-> "str", s |-> s]

\* Python truthiness of None and of a str
Truthy(v) == v.kind = "str" /\ v.s # ""

\* sequences over S of length lo..hi
SeqsOf(S, lo, hi) == UNION {[1..n -> S] : n \in lo..hi}

\* the column lists a SELECT can produce: one or more distinct names, any order
ColumnLists == {c \in SeqsOf(ColNames, 1, Cardinality(ColNames)) :
                  \A i, j \in DOMAIN c : i # j => c[i] # c[j]}

\* what cur.fetchall() can return with at most n rows: every row has the same
\* columns in the same order and every column has one type
FetchedUpTo(n) ==
  {<<>>} \cup
  UNION {UNION {{[i \in DOMAIN rows |->
                    [j \in DOMAIN cols |-> <<cols[j], [t |-> types[j], v |-> rows[i][j]]>>]]
                 : rows \in SeqsOf([DOMAIN cols -> CellValues], 1, n)}
                : types \in [DOMAIN cols -> PyTypes]}
         : cols \in ColumnLists}

Fetched == FetchedUpTo(MaxRows)

\* ------------------------------------------------------------ pandas model
\* the dtype pandas infers for a column holding python values of these types
InferDtype(types) ==
  IF types \subseteq {"int"} THEN "int64"
  ELSE IF types \subseteq {"int", "float"} THEN "float64"
  ELSE "object"

\* pd.DataFrame(results): columns in the key order of the rows, one dtype per
\* column, a fresh RangeIndex (0-based); with no rows there are no columns
PdDataFrame(results) ==
  IF Len(results) = 0
  THEN [kind |-> "DataFrame", columns |-> <<>>, dtypes |-> <<>>, index |-> <<>>,
        values |-> <<>>]
  ELSE [kind |-> "DataFrame",
        columns |-> [j \in DOMAIN results[1] |-> results[1][j][1]],
        dtypes |-> [j \in DOMAIN results[1] |->
                      InferDtype({results[i][j][2].t : i \in DOMAIN results})],
        index |-> [i \in DOMAIN results |-> i - 1],
        values |-> [i \in DOMAIN results |->
                      [j \in DOMAIN results[i] |-> results[i][j][2].v]]]

\* df.empty: any axis has length 0
DfEmpty(df) == Len(df.index) = 0 \/ Len(df.columns) = 0

\* df.shape
DfShape(df) == <<Len(df.index), Len(df.columns)>>

\* the order of column names under Python's str comparison
ColOrd(c) == CASE c = "a" -> 1 [] c = "b" -> 2

RECURSIVE InsertCol(_, _)
InsertCol(c, s) ==
  IF s = <<>> THEN <<c>>
  ELSE IF ColOrd(c) < ColOrd(Head(s)) THEN <<c>> \o s
  ELSE <<Head(s)>> \o InsertCol(c, Tail(s))

\* sorted(list of column names)
RECURSIVE SortedCols(_)
SortedCols(cols) ==
  IF cols = <<>> THEN <<>> ELSE InsertCol(Head(cols), SortedCols(Tail(cols)))

\* row r1 sorts strictly before r2: lexicographic over the `by` positions
RowLess(r1, r2) ==
  \E k \in DOMAIN r1 : r1[k] < r2[k] /\ \A m \in 1..(k - 1) : r1[m] = r2[m]

\* stable insertion of position p into the ordered list of positions s
RECURSIVE InsertPos(_, _, _)
InsertPos(vals, p, s) ==
  IF s = <<>> THEN <<p>>
  ELSE IF RowLess(vals[Head(s)], vals[p])
            \/ (~RowLess(vals[p], vals[Head(s)]) /\ Head(s) < p)
       THEN <<Head(s)>> \o InsertPos(vals, p, Tail(s))
       ELSE <<p>> \o s

\* the permutation a stable sort of the rows yields
RECURSIVE SortPerm(_, _)
SortPerm(vals, n) ==
  IF n = 0 THEN <<>> ELSE InsertPos(vals, n, SortPerm(vals, n - 1))

\* a sort_values that leaves the rows as fetched
SortValuesKeepsOrder(df) == df

\* df.sort_values(by=df.columns.tolist()): rows ordered by all columns in the
\* frame's own column order; every row keeps its index label
SortValues(df) ==
  LET perm == SortPerm(df.values, Len(df.values))
  IN [df EXCEPT !.index = [i \in DOMAIN perm |-> df.index[perm[i]]],
                !.values = [i \in DOMAIN perm |-> df.values[perm[i]]]]

\* df.reset_index(drop=True)
ResetIndex(df) == [df EXCEPT !.index = [i \in DOMAIN df.index |-> i - 1]]

\* df1.equals(df2): same axes (column labels in order, index labels in order),
\* same dtype per column, same cells
DfEquals(df1, df2) ==
  /\ df1.columns = df2.columns
  /\ df1.index = df2.index
  /\ df1.dtypes = df2.dtypes
  /\ df1.values = df2.values

\* a comparator that looks at the number of columns and at the cells, not at the
\* column names
compare_values_only(df1, df2) ==
  IF df1 = NoneVal \/ df2 = NoneVal THEN FALSE
  ELSE IF DfEmpty(df1) # DfEmpty(df2) THEN FALSE
  ELSE IF DfEmpty(df1) /\ DfEmpty(df2) THEN TRUE
  ELSE IF Len(df1.columns) # Len(df2.columns) THEN FALSE
  ELSE ResetIndex(SortValues(df1)).values = ResetIndex(SortValues(df2)).values

\* compare_query_results(df1, df2)
compare_query_results(df1, df2) ==
  IF df1 = NoneVal \/ df2 = NoneVal THEN FALSE
  ELSE IF DfEmpty(df1) # DfEmpty(df2) THEN FALSE
  ELSE IF DfEmpty(df1) /\ DfEmpty(df2) THEN TRUE
  ELSE IF SortedCols(df1.columns) # SortedCols(df2.columns) THEN FALSE
  ELSE DfEquals(ResetIndex(SortValues(df1)), ResetIndex(SortValues(df2)))

\* the text df.to_string() renders: header, index labels, and each cell as
\* its dtype prints it (10 as int64, 10.0 as float64, the Decimal's own text)
DfToString(df) ==
  [columns |-> df.columns, index |-> df.index,
   cells |-> [i \in DOMAIN df.values |->
                [j \in DOMAIN df.columns |-> <<df.dtypes[j], df.values[i][j]>>]]]

\* generate_result_signature(df)
generate_result_signature(df) ==
  IF df = NoneVal \/ DfEmpty(df) THEN Str("empty_result")
  ELSE [kind |-> "md5", of |-> DfToString(df)]

\* ------------------------------------------------------------ python dicts
\* a dict keeps its keys in insertion order: [keys |-> sequence, val |-> map]
EmptyDict == [keys |-> <<>>, val |-> <<>>]

DictHas(d, k) == \E i \in DOMAIN d.keys : d.keys[i] = k

DictGet(d, k) == d.val[CHOOSE i \in DOMAIN d.keys : d.keys[i] = k]

\* a dict whose known key keeps its first value
DictSetKeepsFirst(d, k, v) ==
  IF DictHas(d, k) THEN d
  ELSE [keys |-> Append(d.keys, k), val |-> Append(d.val, v)]

\* d[k] = v: a known key keeps its place and takes the new value
DictSet(d, k, v) ==
  IF DictHas(d, k)
  THEN [d EXCEPT !.val[CHOOSE i \in DOMAIN d.keys : d.keys[i] = k] = v]
  ELSE [keys |-> Append(d.keys, k), val |-> Append(d.val, v)]

\* {item["NL"]: item["Query"] for item in data}
RECURSIVE DictComp(_)
DictComp(data) ==
  IF data = <<>> THEN EmptyDict
  ELSE LET n == Len(data)
       IN DictSet(DictComp(SubSeq(data, 1, n - 1)), data[n].NL, data[n].Query)

\* ------------------------------------------------------------------ inputs
\* the content of a file: item i has one of the prompts and a query text of its
\* own, written <<file, i>> (the code never looks into a query text)
FileItems(file, prompts) ==
  [i \in DOMAIN prompts |-> [NL |-> prompts[i], Query |-> <<file, i>>]]

Collections(file) == {FileItems(file, ps) : ps \in SeqsOf(Prompts, 0, MaxItems)}

\* what the database answers in a run of the driver: a one-column table of
\* integers, read with no row or one row
Answers == {r \in Fetched : Len(r) <= 1 /\ \A i \in DOMAIN r :
              Len(r[i]) = 1 /\ r[i][1][1] = "a" /\ r[i][1][2].t = "int"}

\* ------------------------------------------------------------------- state
VARIABLES
  test_data, output_data,        \* json.load of the two files
  test_dict, output_dict,        \* the two mappings keyed by NL
  pos,                           \* items of test_dict.items() consumed
  nl, test_query, output_query,  \* the loop's current pair
  total, matches, errors,        \* the counters and the non-match records
  test_results, test_error, output_results, output_error,
  accuracy,
  pc,                            \* where evaluate_queries is
  epc,                           \* where execute_query is ("idle": not running)
  query,                         \* execute_query's argument
  conn,                          \* execute_query's local: None or a connection
  exc,                           \* the exception in flight, None when none
  results,                       \* cur.fetchall()
  ret,                           \* the value execute_query returns
  open,                          \* the connections open at the server
  calls,                         \* the queries execute_query was called with
  cpc, df1, df2, cres            \* the comparator called on its own

dvars == <<test_data, output_data, test_dict, output_dict, pos, nl, test_query,
           output_query, total, matches, errors, test_results, test_error,
           output_results, output_error, accuracy, pc>>
evars == <<epc, query, conn, exc, results, ret, open, calls>>
cvars == <<cpc, df1, df2, cres>>

\* the generation programs (main_deepseek.py, main.py)
VARIABLES
  gmode,                         \* which program runs
  gpc,                           \* where process_queries / generate_sqls is
  spc,                           \* where SQLAgent._get_detailed_schema is
  schema,                        \* _get_detailed_schema's local schema
  sconn,                         \* its local conn: unbound until assigned
  sexc,                          \* the exception in flight, None when none
  slog,                          \* what it printed
  sopen,                         \* whether its connection is open
  agent,                         \* the SQLAgent once constructed, else None
  nl_queries, bad_queries,       \* json.load of the two input files
  phase,                         \* which loop of process_queries runs
  gi,                            \* items of the current loop consumed
  attempt,                       \* the attempt number inside _query_llm
  response,                      \* the language model's answer
  gexc,                          \* the exception in flight, None when none
  nl_results, corrected_results, \* the two output lists
  tries,                         \* attempts made, per call of _query_llm
  total_tokens,                  \* agent.total_tokens
  payload,                       \* process_queries' return value
  gen_data,                      \* generate_sqls' argument data
  sql_statements                 \* generate_sqls' output list

svars == <<spc, schema, sconn, sexc, slog, sopen, agent>>
gvars == <<gmode, gpc, svars, nl_queries, bad_queries, phase, gi, attempt,
           response, gexc, nl_results, corrected_results, tries, total_tokens,
           payload, gen_data, sql_statements>>
vars == <<dvars, evars, cvars, gvars>>

\* schema = {"tables": {}, "enums": {}, "relationships": []}
EmptySchema == [tables |-> EmptyDict, enums |-> EmptyDict, relationships |-> <<>>]

\* a name that is not bound yet
Unbound == [kind |-> "unbound"]

\* the generation programs are not running
GenIdle ==
  /\ gmode = "unused"
  /\ gpc = "unused"
  /\ spc = "unused"
  /\ schema = EmptySchema
  /\ sconn = Unbound
  /\ sexc = NoneVal
  /\ slog = <<>>
  /\ sopen = FALSE
  /\ agent = NoneVal
  /\ nl_queries = <<>>
  /\ bad_queries = <<>>
  /\ phase = "nl"
  /\ gi = 0
  /\ attempt = 0
  /\ response = NoneVal
  /\ gexc = NoneVal
  /\ nl_results = <<>>
  /\ corrected_results = <<>>
  /\ tries = <<>>
  /\ total_tokens = 0
  /\ payload = NoneVal
  /\ gen_data = <<>>
  /\ sql_statements = <<>>

\* ----------------------------------------------------------- execute_query
\* line 25: conn = None
EnterExecuteQuery(q) ==
  /\ epc' = "connect"
  /\ query' = q
  /\ conn' = NoneVal
  /\ exc' = NoneVal
  /\ results' = <<>>
  /\ ret' = <<NoneVal, NoneVal>>
  /\ calls' = Append(calls, q)
  /\ UNCHANGED open

\* line 27: conn = get_db_connection(), which connects or raises; the
\* connection of the n-th call of execute_query is connection n
Connect ==
  /\ epc = "connect"
  /\ \/ /\ conn' = [kind |-> "connection", id |-> Len(calls)]
        /\ open' = open \cup {Len(calls)}
        /\ epc' = "autocommit"
        /\ UNCHANGED exc
     \/ /\ \E e \in ErrorTexts : exc' = Str(e)
        /\ epc' = "except"
        /\ UNCHANGED <<conn, open>>
  /\ UNCHANGED <<query, results, ret, calls, dvars, cvars, gvars>>

\* line 28: conn.autocommit = True
SetAutocommit ==
  /\ epc = "autocommit"
  /\ \/ /\ epc' = "execute"
        /\ UNCHANGED exc
     \/ /\ \E e \in ErrorTexts : exc' = Str(e)
        /\ epc' = "except"
  /\ UNCHANGED <<query, conn, results, ret, open, calls, dvars, cvars, gvars>>

\* lines 30-31: cur.execute(query)
Execute ==
  /\ epc = "execute"
  /\ \/ /\ epc' = "fetch"
        /\ UNCHANGED exc
     \/ /\ \E e \in ErrorTexts : exc' = Str(e)
        /\ epc' = "except"
  /\ UNCHANGED <<query, conn, results, ret, open, calls, dvars, cvars, gvars>>

\* line 32: results = cur.fetchall()
Fetch ==
  /\ epc = "fetch"
  /\ \/ /\ \E r \in Answers : results' = r
        /\ epc' = "frame"
        /\ UNCHANGED exc
     \/ /\ \E e \in ErrorTexts : exc' = Str(e)
        /\ epc' = "except"
        /\ UNCHANGED results
  /\ UNCHANGED <<query, conn, ret, open, calls, dvars, cvars, gvars>>

\* lines 34-35: df = pd.DataFrame(results); return df, None
BuildFrame ==
  /\ epc = "frame"
  /\ ret' = <<PdDataFrame(results), NoneVal>>
  /\ epc' = "finally"
  /\ UNCHANGED <<query, conn, exc, results, open, calls, dvars, cvars, gvars>>

\* an executor that lets the exception escape: the connection is closed and
\* evaluate_queries is left through the exception
ExceptPropagates ==
  /\ epc = "except"
  /\ open' = IF conn # NoneVal THEN open \ {conn.id} ELSE open
  /\ epc' = "raised"
  /\ pc' = "aborted"
  /\ UNCHANGED <<test_data, output_data, test_dict, output_dict, pos, nl,
                 test_query, output_query, total, matches, errors, test_results,
                 test_error, output_results, output_error, accuracy,
                 query, conn, exc, results, ret, calls, cvars, gvars>>

\* lines 36-37: except Exception as e: return None, str(e)
Except ==
  /\ epc = "except"
  /\ ret' = <<NoneVal, exc>>
  /\ exc' = NoneVal
  /\ epc' = "finally"
  /\ UNCHANGED <<query, conn, results, open, calls, dvars, cvars, gvars>>

\* a finally clause that closes nothing
AfterFinallyLeaks(c, o) == o

\* the connections open once the finally clause has run
AfterFinally(c, o) == IF c # NoneVal THEN o \ {c.id} ELSE o

\* lines 38-40: finally: if conn: conn.close()
Finally ==
  /\ epc = "finally"
  /\ open' = AfterFinally(conn, open)
  /\ epc' = "return"
  /\ UNCHANGED <<query, conn, exc, results, ret, calls, dvars, cvars, gvars>>

\* execute_query has returned: its locals are gone
LeaveExecuteQuery ==
  /\ epc' = "idle"
  /\ query' = NoneVal
  /\ conn' = NoneVal
  /\ exc' = NoneVal
  /\ results' = <<>>
  /\ ret' = <<NoneVal, NoneVal>>
  /\ UNCHANGED <<open, calls>>

\* -------------------------------------------------------- evaluate_queries
\* lines 97-103: the two mappings, the counters
Load ==
  /\ pc = "load"
  /\ test_dict' = DictComp(test_data)
  /\ output_dict' = DictComp(output_data)
  /\ total' = 0
  /\ matches' = 0
  /\ errors' = <<>>
  /\ pc' = "for"
  /\ UNCHANGED <<test_data, output_data, pos, nl, test_query, output_query,
                 test_results, test_error, output_results, output_error,
                 accuracy, evars, cvars, gvars>>

\* the pairs the loop counts: nl in output_dict
Counted(k, d) == DictHas(d, k)

\* a loop that counts every item of test_dict, paired or not
ForNextCountsAll ==
  /\ pc = "for"
  /\ pos < Len(test_dict.keys)
  /\ LET k == test_dict.keys[pos + 1]
     IN /\ nl' = Str(k)
        /\ test_query' = Str(test_dict.val[pos + 1])
        /\ pos' = pos + 1
        /\ total' = total + 1
        /\ IF Counted(k, output_dict)
           THEN /\ output_query' = Str(DictGet(output_dict, k))
                /\ pc' = "call_test"
           ELSE /\ pc' = "for"
                /\ UNCHANGED output_query
  /\ UNCHANGED <<test_data, output_data, test_dict, output_dict, matches, errors,
                 test_results, test_error, output_results, output_error,
                 accuracy, evars, cvars, gvars>>

\* lines 105-108: the next item of test_dict; counted when output_dict has it
ForNext ==
  /\ pc = "for"
  /\ pos < Len(test_dict.keys)
  /\ LET k == test_dict.keys[pos + 1]
     IN /\ nl' = Str(k)
        /\ test_query' = Str(test_dict.val[pos + 1])
        /\ pos' = pos + 1
        /\ IF Counted(k, output_dict)
           THEN /\ total' = total + 1
                /\ output_query' = Str(DictGet(output_dict, k))
                /\ pc' = "call_test"
           ELSE /\ pc' = "for"
                /\ UNCHANGED <<total, output_query>>
  /\ UNCHANGED <<test_data, output_data, test_dict, output_dict, matches, errors,
                 test_results, test_error, output_results, output_error,
                 accuracy, evars, cvars, gvars>>

\* line 111: execute_query(test_query) is entered
CallTest ==
  /\ pc = "call_test"
  /\ epc = "idle"
  /\ EnterExecuteQuery(test_query)
  /\ pc' = "await_test"
  /\ UNCHANGED <<test_data, output_data, test_dict, output_dict, pos, nl,
                 test_query, output_query, total, matches, errors, test_results,
                 test_error, output_results, output_error, accuracy, cvars, gvars>>

\* line 111: test_results, test_error = the returned pair
ReturnTest ==
  /\ pc = "await_test"
  /\ epc = "return"
  /\ test_results' = ret[1]
  /\ test_error' = ret[2]
  /\ LeaveExecuteQuery
  /\ pc' = "call_output"
  /\ UNCHANGED <<test_data, output_data, test_dict, output_dict, pos, nl,
                 test_query, output_query, total, matches, errors,
                 output_results, output_error, accuracy, cvars, gvars>>

\* line 112: execute_query(output_query) is entered
CallOutput ==
  /\ pc = "call_output"
  /\ epc = "idle"
  /\ EnterExecuteQuery(output_query)
  /\ pc' = "await_output"
  /\ UNCHANGED <<test_data, output_data, test_dict, output_dict, pos, nl,
                 test_query, output_query, total, matches, errors, test_results,
                 test_error, output_results, output_error, accuracy, cvars, gvars>>

\* line 112: output_results, output_error = the returned pair
ReturnOutput ==
  /\ pc = "await_output"
  /\ epc = "return"
  /\ output_results' = ret[1]
  /\ output_error' = ret[2]
  /\ LeaveExecuteQuery
  /\ pc' = "classify"
  /\ UNCHANGED <<test_data, output_data, test_dict, output_dict, pos, nl,
                 test_query, output_query, total, matches, errors,
                 test_results, test_error, accuracy, cvars, gvars>>

\* line 115: if test_error or output_error
EitherFailed(te, oe) == Truthy(te) \/ Truthy(oe)

\* lines 116-122: the record of a pair with a failed execution
ErrorRecord ==
  [NL |-> nl, Expected |-> test_query, Actual |-> output_query,
   Expected_Error |-> test_error, Actual_Error |-> output_error]

\* lines 129-137: the record of a pair whose results differ
MismatchRecord ==
  [NL |-> nl, Expected |-> test_query, Actual |-> output_query,
   Expected_Signature |-> generate_result_signature(test_results),
   Actual_Signature |-> generate_result_signature(output_results),
   Expected_Shape |-> IF test_results # NoneVal THEN DfShape(test_results) ELSE NoneVal,
   Actual_Shape |-> IF output_results # NoneVal THEN DfShape(output_results) ELSE NoneVal]

\* lines 115-137: the pair is an execution error, a match or a mismatch
Classify ==
  /\ pc = "classify"
  /\ IF EitherFailed(test_error, output_error)
     THEN /\ errors' = Append(errors, ErrorRecord)
          /\ UNCHANGED matches
     ELSE IF compare_query_results(test_results, output_results)
     THEN /\ matches' = matches + 1
          /\ UNCHANGED errors
     ELSE /\ errors' = Append(errors, MismatchRecord)
          /\ UNCHANGED matches
  /\ pc' = "for"
  /\ UNCHANGED <<test_data, output_data, test_dict, output_dict, pos, nl,
                 test_query, output_query, total, test_results, test_error,
                 output_results, output_error, accuracy, evars, cvars, gvars>>

\* the division with no guard: total = 0 leaves a zero denominator
AccuracyUnguarded(m, t) == [kind |-> "float", num |-> m * 100, den |-> t]

\* line 140: (matches / total * 100) if total > 0 else 0, as an exact fraction
Accuracy(m, t) ==
  IF t > 0 THEN [kind |-> "float", num |-> m * 100, den |-> t]
  ELSE [kind |-> "int", num |-> 0, den |-> 1]

\* lines 140-142: the loop is over; accuracy, errors, matches, total are returned
Return ==
  /\ pc = "for"
  /\ pos = Len(test_dict.keys)
  /\ accuracy' = Accuracy(matches, total)
  /\ pc' = "done"
  /\ UNCHANGED <<test_data, output_data, test_dict, output_dict, pos, nl,
                 test_query, output_query, total, matches, errors, test_results,
                 test_error, output_results, output_error, evars, cvars, gvars>>

Init ==
  /\ test_data \in Collections("expected")
  /\ output_data \in Collections("actual")
  /\ test_dict = EmptyDict
  /\ output_dict = EmptyDict
  /\ pos = 0
  /\ nl = NoneVal
  /\ test_query = NoneVal
  /\ output_query = NoneVal
  /\ total = 0
  /\ matches = 0
  /\ errors = <<>>
  /\ test_results = NoneVal
  /\ test_error = NoneVal
  /\ output_results = NoneVal
  /\ output_error = NoneVal
  /\ accuracy = NoneVal
  /\ pc = "load"
  /\ epc = "idle"
  /\ query = NoneVal
  /\ conn = NoneVal
  /\ exc = NoneVal
  /\ results = <<>>
  /\ ret = <<NoneVal, NoneVal>>
  /\ open = {}
  /\ calls = <<>>
  /\ cpc = "unused"
  /\ df1 = NoneVal
  /\ df2 = NoneVal
  /\ cres = FALSE
  /\ GenIdle

Next ==
  \/ Load
  \/ ForNext
  \/ CallTest
  \/ Connect
  \/ SetAutocommit
  \/ Execute
  \/ Fetch
  \/ BuildFrame
  \/ Except
  \/ Finally
  \/ ReturnTest
  \/ CallOutput
  \/ ReturnOutput
  \/ Classify
  \/ Return

Spec == Init /\ [][Next]_vars

\* the driver runs on: no step is postponed for ever (single-threaded code)
FairSpec == Spec /\ WF_vars(Next)

\* ------------------------------------------- the comparator on its own
\* what execute_query hands back as its first component
Outcomes == {NoneVal} \cup {PdDataFrame(r) : r \in Fetched}

CompareInit ==
  /\ cpc = "call"
  /\ df1 \in Outcomes
  /\ df2 \in Outcomes
  /\ cres = FALSE
  /\ test_data = <<>>
  /\ output_data = <<>>
  /\ test_dict = EmptyDict
  /\ output_dict = EmptyDict
  /\ pos = 0
  /\ nl = NoneVal
  /\ test_query = NoneVal
  /\ output_query = NoneVal
  /\ total = 0
  /\ matches = 0
  /\ errors = <<>>
  /\ test_results = NoneVal
  /\ test_error = NoneVal
  /\ output_results = NoneVal
  /\ output_error = NoneVal
  /\ accuracy = NoneVal
  /\ pc = "unused"
  /\ epc = "unused"
  /\ query = NoneVal
  /\ conn = NoneVal
  /\ exc = NoneVal
  /\ results = <<>>
  /\ ret = <<NoneVal, NoneVal>>
  /\ open = {}
  /\ calls = <<>>
  /\ GenIdle

\* compare_query_results(df1, df2) is called and returns
CallCompare ==
  /\ cpc = "call"
  /\ cres' = compare_query_results(df1, df2)
  /\ cpc' = "returned"
  /\ UNCHANGED <<df1, df2, dvars, evars, gvars>>

CompareNext == CallCompare

SpecCompare == CompareInit /\ [][CompareNext]_vars

\* ------------------------------------------ SQLAgent (main_deepseek.py)
\* the attempts tenacity allows _query_llm: stop_after_attempt(3)
MaxAttempts == 3

\* what the three introspection queries can answer
EnumAnswers == {<<>>, <<<<"mood", "happy">>, <<"mood", "sad">>>>}

TableAnswers ==
  {<<>>,
   <<<<"users", "id", "integer", "NO", NoneVal, Str("PRIMARY KEY")>>,
     <<"users", "name", "text", "YES", NoneVal, NoneVal>>>>}

ForeignKeyAnswers == {<<>>, <<<<"fk_user", "orders", "user_id", "users", "id">>>>}

\* lines 44-47: the enum labels, grouped by type name
RECURSIVE EnumsFrom(_)
EnumsFrom(rows) ==
  IF rows = <<>> THEN EmptyDict
  ELSE LET n == Len(rows)
           before == EnumsFrom(SubSeq(rows, 1, n - 1))
           known == IF DictHas(before, rows[n][1]) THEN before
                    ELSE DictSet(before, rows[n][1], <<>>)
       IN DictSet(known, rows[n][1], Append(DictGet(known, rows[n][1]), rows[n][2]))

\* lines 74-83: the description of one column
ColumnInfo(row) ==
  [name |-> row[2], type |-> row[3], nullable |-> (row[4] = "YES"),
   default |-> row[5],
   constraints |-> IF row[6] # NoneVal THEN <<row[6]>> ELSE <<>>]

\* lines 67-84: the columns, grouped by table; a table name that differs from
\* the one before starts an empty list
RECURSIVE TablesFrom(_)
TablesFrom(rows) ==
  IF rows = <<>> THEN EmptyDict
  ELSE LET n == Len(rows)
           before == TablesFrom(SubSeq(rows, 1, n - 1))
           started == IF n = 1 \/ rows[n][1] # rows[n - 1][1]
                      THEN DictSet(before, rows[n][1], <<>>)
                      ELSE before
       IN DictSet(started, rows[n][1],
                  Append(DictGet(started, rows[n][1]), ColumnInfo(rows[n])))

\* lines 100-107: one relationship per foreign key
RelationshipsFrom(rows) ==
  [i \in DOMAIN rows |->
     [name |-> rows[i][1], source_table |-> rows[i][2], source_column |-> rows[i][3],
      target_table |-> rows[i][4], target_column |-> rows[i][5]]]

\* what process_queries and generate_sqls leave alone while the schema is read
loopvars == <<nl_queries, bad_queries, phase, gi, attempt, response, gexc,
              nl_results, corrected_results, tries, total_tokens, payload,
              gen_data, sql_statements>>

\* lines 194, 13-31: SQLAgent() is called; _get_detailed_schema starts with an
\* empty schema and no conn
ConstructAgent ==
  /\ gmode = "process_queries"
  /\ gpc = "construct"
  /\ spc = "idle"
  /\ schema' = EmptySchema
  /\ sconn' = Unbound
  /\ spc' = "connect"
  /\ gpc' = "constructing"
  /\ UNCHANGED <<gmode, sexc, slog, sopen, agent, loopvars, dvars, evars, cvars>>

\* line 34: conn = psycopg2.connect(**self.db_config), which connects or raises
SchemaConnect ==
  /\ spc = "connect"
  /\ \/ /\ sconn' = [kind |-> "connection", id |-> 1]
        /\ sopen' = TRUE
        /\ spc' = "enums"
        /\ UNCHANGED sexc
     \/ /\ \E e \in ErrorTexts : sexc' = Str(e)
        /\ spc' = "except"
        /\ UNCHANGED <<sconn, sopen>>
  /\ UNCHANGED <<gmode, gpc, schema, slog, agent, loopvars, dvars, evars, cvars>>

\* lines 35-47: the cursor, the enum query and its rows
SchemaEnums ==
  /\ spc = "enums"
  /\ \/ /\ \E rows \in EnumAnswers : schema' = [schema EXCEPT !.enums = EnumsFrom(rows)]
        /\ spc' = "tables"
        /\ UNCHANGED sexc
     \/ /\ \E e \in ErrorTexts : sexc' = Str(e)
        /\ spc' = "except"
        /\ UNCHANGED schema
  /\ UNCHANGED <<gmode, gpc, sconn, slog, sopen, agent, loopvars, dvars, evars, cvars>>

\* lines 50-84: the column query and its rows
SchemaTables ==
  /\ spc = "tables"
  /\ \/ /\ \E rows \in TableAnswers : schema' = [schema EXCEPT !.tables = TablesFrom(rows)]
        /\ spc' = "foreign_keys"
        /\ UNCHANGED sexc
     \/ /\ \E e \in ErrorTexts : sexc' = Str(e)
        /\ spc' = "except"
        /\ UNCHANGED schema
  /\ UNCHANGED <<gmode, gpc, sconn, slog, sopen, agent, loopvars, dvars, evars, cvars>>

\* lines 87-107: the foreign-key query and its rows
SchemaForeignKeys ==
  /\ spc = "foreign_keys"
  /\ \/ /\ \E rows \in ForeignKeyAnswers :
             schema' = [schema EXCEPT !.relationships = RelationshipsFrom(rows)]
        /\ spc' = "finally"
        /\ UNCHANGED sexc
     \/ /\ \E e \in ErrorTexts : sexc' = Str(e)
        /\ spc' = "except"
        /\ UNCHANGED schema
  /\ UNCHANGED <<gmode, gpc, sconn, slog, sopen, agent, loopvars, dvars, evars, cvars>>

\* lines 109-110: except Exception as e: print(...)
SchemaExcept ==
  /\ spc = "except"
  /\ slog' = Append(slog, <<"Schema extraction failed: ", sexc.s>>)
  /\ sexc' = NoneVal
  /\ spc' = "finally"
  /\ UNCHANGED <<gmode, gpc, schema, sconn, sopen, agent, loopvars, dvars, evars, cvars>>

\* lines 111-112: finally: conn.close(); a conn that was never assigned is an
\* UnboundLocalError, raised out of the finally clause
SchemaFinally ==
  /\ spc = "finally"
  /\ IF sconn = Unbound
     THEN /\ sexc' = Str("UnboundLocalError")
          /\ spc' = "raised"
          /\ UNCHANGED sopen
     ELSE /\ sopen' = FALSE
          /\ spc' = "return"
          /\ UNCHANGED sexc
  /\ UNCHANGED <<gmode, gpc, schema, sconn, slog, agent, loopvars, dvars, evars, cvars>>

\* lines 114, 22-23: return schema; self.schema = ...; self.total_tokens = 0
SchemaReturn ==
  /\ spc = "return"
  /\ agent' = [kind |-> "SQLAgent", schema |-> schema]
  /\ total_tokens' = 0
  /\ spc' = "idle"
  /\ gpc' = "load_nl"
  /\ UNCHANGED <<gmode, schema, sconn, sexc, slog, sopen, nl_queries, bad_queries,
                 phase, gi, attempt, response, gexc, nl_results, corrected_results,
                 tries, payload, gen_data, sql_statements, dvars, evars, cvars>>

\* the exception leaves _get_detailed_schema, __init__ and process_queries,
\* none of which handles it
SchemaRaised ==
  /\ spc = "raised"
  /\ gpc = "constructing"
  /\ gpc' = "aborted"
  /\ UNCHANGED <<gmode, svars, loopvars, dvars, evars, cvars>>

\* ---------------------------------------- process_queries (main_deepseek.py)
\* the items of nl_test.csv and of incorrect_sql_test.csv: item i has id i and
\* a text of its own (the code hands the text on without looking into it)
NlQueries(n) == [i \in 1..n |-> [id |-> i, nl_query |-> <<"request", i>>]]
BadQueries(n) == [i \in 1..n |-> [id |-> i, incorrect_sql |-> <<"bad sql", i>>]]

\* what the language model answers: bare SQL, or SQL inside a markdown fence
Responses == {[fence |-> f, body |-> "SELECT 1"] : f \in {"none", "sql", "plain"}}

\* lines 185-191: _clean_sql takes the SQL out of the fence, if there is one:
\* the text after "```sql" up to the next fence, else the text after the first
\* fence, else the whole text
CleanSql(r) ==
  IF r.fence = "sql" THEN Str(r.body)
  ELSE IF r.fence = "plain" THEN Str(r.body)
  ELSE Str(r.body)

\* the list the running loop reads, and the number of its items
CurrentInput == IF phase = "nl" THEN nl_queries ELSE bad_queries

\* tries with one more attempt counted for the call in progress
CountAttempt(t) == [t EXCEPT ![Len(t)] = t[Len(t)] + 1]

\* lines 197-200: the first input list is loaded, nl_results = []
PQLoad ==
  /\ gpc = "load_nl"
  /\ phase' = "nl"
  /\ gi' = 0
  /\ nl_results' = <<>>
  /\ gpc' = "loop"
  /\ UNCHANGED <<gmode, svars, nl_queries, bad_queries, attempt, response, gexc,
                 corrected_results, tries, total_tokens, payload, gen_data,
                 sql_statements, dvars, evars, cvars>>

\* lines 201-203, 221-223: the next item; generate_sql / correct_sql calls
\* _query_llm, whose first attempt is about to run
PQNextItem ==
  /\ gpc = "loop"
  /\ gi < Len(CurrentInput)
  /\ gi' = gi + 1
  /\ attempt' = 1
  /\ tries' = Append(tries, 0)
  /\ gpc' = "llm"
  /\ UNCHANGED <<gmode, svars, nl_queries, bad_queries, phase, response, gexc,
                 nl_results, corrected_results, total_tokens, payload, gen_data,
                 sql_statements, dvars, evars, cvars>>

\* lines 160-171: one attempt of _query_llm: the client answers or raises
LlmAttempt ==
  /\ gpc = "llm"
  /\ tries' = CountAttempt(tries)
  /\ \/ /\ \E r \in Responses : response' = r
        /\ total_tokens' = total_tokens + 1
        /\ gpc' = "append"
        /\ UNCHANGED gexc
     \/ /\ \E e \in ErrorTexts : gexc' = Str(e)
        /\ gpc' = "llm_failed"
        /\ UNCHANGED <<response, total_tokens>>
  /\ UNCHANGED <<gmode, svars, nl_queries, bad_queries, phase, gi, attempt,
                 nl_results, corrected_results, payload, gen_data, sql_statements,
                 dvars, evars, cvars>>

\* whether tenacity stops after this attempt: stop_after_attempt(3)
StopAfterAttempt(n) == n >= MaxAttempts

\* line 152: the attempt failed and another one is allowed: wait, then retry
LlmRetry ==
  /\ gpc = "llm_failed"
  /\ ~StopAfterAttempt(attempt)
  /\ attempt' = attempt + 1
  /\ gexc' = NoneVal
  /\ gpc' = "llm"
  /\ UNCHANGED <<gmode, svars, nl_queries, bad_queries, phase, gi, response,
                 nl_results, corrected_results, tries, total_tokens, payload,
                 gen_data, sql_statements, dvars, evars, cvars>>

\* line 152: the last attempt failed: tenacity raises RetryError
LlmGiveUp ==
  /\ gpc = "llm_failed"
  /\ StopAfterAttempt(attempt)
  /\ gexc' = Str("RetryError")
  /\ gpc' = "except"
  /\ UNCHANGED <<gmode, svars, nl_queries, bad_queries, phase, gi, attempt,
                 response, nl_results, corrected_results, tries, total_tokens,
                 payload, gen_data, sql_statements, dvars, evars, cvars>>

\* lines 204-208, 224-228: the entry of an item whose query was generated
ResultEntry ==
  IF phase = "nl"
  THEN [id |-> nl_queries[gi].id, generated_sql |-> CleanSql(response),
        original_query |-> nl_queries[gi].nl_query]
  ELSE [id |-> bad_queries[gi].id, corrected_sql |-> CleanSql(response),
        original_sql |-> bad_queries[gi].incorrect_sql]

\* lines 210-214, 230-234: the entry of an item whose call raised
ErrorEntry ==
  IF phase = "nl"
  THEN [id |-> nl_queries[gi].id, error |-> gexc,
        generated_sql |-> Str("/* Error generating query */")]
  ELSE [id |-> bad_queries[gi].id, error |-> gexc,
        corrected_sql |-> Str("/* Error correcting query */")]

\* lines 177, 204-208 and 183, 224-228: the cleaned answer is appended
PQAppend ==
  /\ gpc = "append"
  /\ IF phase = "nl"
     THEN /\ nl_results' = Append(nl_results, ResultEntry)
          /\ UNCHANGED corrected_results
     ELSE /\ corrected_results' = Append(corrected_results, ResultEntry)
          /\ UNCHANGED nl_results
  /\ response' = NoneVal
  /\ gpc' = "loop"
  /\ UNCHANGED <<gmode, svars, nl_queries, bad_queries, phase, gi, attempt, gexc,
                 tries, total_tokens, payload, gen_data, sql_statements,
                 dvars, evars, cvars>>

\* lines 209-214, 229-234: except Exception as e: the error entry is appended
PQExcept ==
  /\ gpc = "except"
  /\ IF phase = "nl"
     THEN /\ nl_results' = Append(nl_results, ErrorEntry)
          /\ UNCHANGED corrected_results
     ELSE /\ corrected_results' = Append(corrected_results, ErrorEntry)
          /\ UNCHANGED nl_results
  /\ gexc' = NoneVal
  /\ gpc' = "loop"
  /\ UNCHANGED <<gmode, svars, nl_queries, bad_queries, phase, gi, attempt,
                 response, tries, total_tokens, payload, gen_data, sql_statements,
                 dvars, evars, cvars>>

\* lines 216-220: the first loop is over; the second list, corrected_results = []
PQSecondLoop ==
  /\ gpc = "loop"
  /\ phase = "nl"
  /\ gi = Len(nl_queries)
  /\ phase' = "corrections"
  /\ gi' = 0
  /\ corrected_results' = <<>>
  /\ UNCHANGED <<gmode, gpc, svars, nl_queries, bad_queries, attempt, response,
                 gexc, nl_results, tries, total_tokens, payload, gen_data,
                 sql_statements, dvars, evars, cvars>>

\* lines 236-251: the second loop is over; the payload is saved and returned
PQSave ==
  /\ gpc = "loop"
  /\ phase = "corrections"
  /\ gi = Len(bad_queries)
  /\ payload' = [token_usage |-> total_tokens,
                 tables_processed |-> agent.schema.tables.keys,
                 nl_results |-> nl_results,
                 corrected_results |-> corrected_results]
  /\ gpc' = "done"
  /\ UNCHANGED <<gmode, svars, nl_queries, bad_queries, phase, gi, attempt,
                 response, gexc, nl_results, corrected_results, tries,
                 total_tokens, gen_data, sql_statements, dvars, evars, cvars>>

\* ------------------------------------------------- generate_sqls (main.py)
\* the items of the input file: "NL" may be empty (or missing: item.get("NL", ""))
GenItems == [NL : {Str("")} \cup {Str(p) : p \in Prompts}]

\* line 92: the query text of an item whose call raised
ErrorQuery(e) == Str(<<"/* Error generating SQL: ", e.s, " */">>)

\* lines 66-71: the next item; an item with an empty NL is skipped
GSNextItem ==
  /\ gpc = "gs_loop"
  /\ gi < Len(gen_data)
  /\ gi' = gi + 1
  /\ IF ~Truthy(gen_data[gi + 1].NL)
     THEN UNCHANGED <<gpc, tries>>
     ELSE /\ gpc' = "gs_call"
          /\ tries' = Append(tries, 0)
  /\ UNCHANGED <<gmode, svars, nl_queries, bad_queries, phase, attempt, response,
                 gexc, nl_results, corrected_results, total_tokens, payload,
                 gen_data, sql_statements, dvars, evars, cvars>>

\* lines 82-92: call_groq_api is called once; its answer, or the error text,
\* becomes sql_query
GSCall ==
  /\ gpc = "gs_call"
  /\ tries' = CountAttempt(tries)
  /\ \/ /\ \E r \in Responses : response' = Str(<<r.fence, r.body>>)
        /\ total_tokens' = total_tokens + 1
     \/ /\ \E e \in ErrorTexts : response' = ErrorQuery(Str(e))
        /\ UNCHANGED total_tokens
  /\ gpc' = "gs_append"
  /\ UNCHANGED <<gmode, svars, nl_queries, bad_queries, phase, gi, attempt, gexc,
                 nl_results, corrected_results, payload, gen_data, sql_statements,
                 dvars, evars, cvars>>

\* lines 95-98: sql_statements.append({"NL": nl_query, "Query": sql_query})
GSAppend ==
  /\ gpc = "gs_append"
  /\ sql_statements' = Append(sql_statements,
                              [NL |-> gen_data[gi].NL, Query |-> response])
  /\ response' = NoneVal
  /\ gpc' = "gs_loop"
  /\ UNCHANGED <<gmode, svars, nl_queries, bad_queries, phase, gi, attempt, gexc,
                 nl_results, corrected_results, tries, total_tokens, payload,
                 gen_data, dvars, evars, cvars>>

\* line 100: return sql_statements
GSReturn ==
  /\ gpc = "gs_loop"
  /\ gi = Len(gen_data)
  /\ gpc' = "gs_returned"
  /\ UNCHANGED <<gmode, svars, loopvars, dvars, evars, cvars>>

\* main, line 166: assert len(data_1) == len(sql_statements); lines 172-173
MainAssert ==
  /\ gpc = "gs_returned"
  /\ gpc' = IF Len(gen_data) = Len(sql_statements) THEN "done" ELSE "AssertionError"
  /\ UNCHANGED <<gmode, svars, loopvars, dvars, evars, cvars>>

\* the evaluation programs are not running
DriverIdle ==
  /\ test_data = <<>>
  /\ output_data = <<>>
  /\ test_dict = EmptyDict
  /\ output_dict = EmptyDict
  /\ pos = 0
  /\ nl = NoneVal
  /\ test_query = NoneVal
  /\ output_query = NoneVal
  /\ total = 0
  /\ matches = 0
  /\ errors = <<>>
  /\ test_results = NoneVal
  /\ test_error = NoneVal
  /\ output_results = NoneVal
  /\ output_error = NoneVal
  /\ accuracy = NoneVal
  /\ pc = "unused"
  /\ epc = "unused"
  /\ query = NoneVal
  /\ conn = NoneVal
  /\ exc = NoneVal
  /\ results = <<>>
  /\ ret = <<NoneVal, NoneVal>>
  /\ open = {}
  /\ calls = <<>>
  /\ cpc = "unused"
  /\ df1 = NoneVal
  /\ df2 = NoneVal
  /\ cres = FALSE

\* process_queries is entered with its two input files, or generate_sqls with
\* its data
GenInit ==
  /\ DriverIdle
  /\ gmode \in {"process_queries", "generate_sqls"}
  /\ IF gmode = "process_queries"
     THEN /\ gpc = "construct"
          /\ \E n \in 0..MaxItems : nl_queries = NlQueries(n)
          /\ \E n \in 0..MaxItems : bad_queries = BadQueries(n)
          /\ gen_data = <<>>
     ELSE /\ gpc = "gs_loop"
          /\ nl_queries = <<>>
          /\ bad_queries = <<>>
          /\ gen_data \in SeqsOf(GenItems, 0, MaxItems)
  /\ spc = "idle"
  /\ schema = EmptySchema
  /\ sconn = Unbound
  /\ sexc = NoneVal
  /\ slog = <<>>
  /\ sopen = FALSE
  /\ agent = NoneVal
  /\ phase = "nl"
  /\ gi = 0
  /\ attempt = 0
  /\ response = NoneVal
  /\ gexc = NoneVal
  /\ nl_results = <<>>
  /\ corrected_results = <<>>
  /\ tries = <<>>
  /\ total_tokens = 0
  /\ payload = NoneVal
  /\ sql_statements = <<>>

GenNext ==
  \/ ConstructAgent
  \/ SchemaConnect
  \/ SchemaEnums
  \/ SchemaTables
  \/ SchemaForeignKeys
  \/ SchemaExcept
  \/ SchemaFinally
  \/ SchemaReturn
  \/ SchemaRaised
  \/ PQLoad
  \/ PQNextItem
  \/ LlmAttempt
  \/ LlmRetry
  \/ LlmGiveUp
  \/ PQAppend
  \/ PQExcept
  \/ PQSecondLoop
  \/ PQSave
  \/ GSNextItem
  \/ GSCall
  \/ GSAppend
  \/ GSReturn
  \/ MainAssert

SpecGen == GenInit /\ [][GenNext]_vars

\* ================================================================== claims
Range(f) == {f[i] : i \in DOMAIN f}

IsErrorRecord(r) == "Expected_Error" \in DOMAIN r
IsMismatchRecord(r) == "Expected_Signature" \in DOMAIN r

\* an execution that failed: execute_query returned no result set
Failed(res) == res = NoneVal

\* C1: a pair one of whose executions failed, whatever the error text, is
\* recorded as an ExecutionError record and is not counted in matches.
C1_FailureIsExecutionError ==
  [][(pc = "classify" /\ (Failed(test_results) \/ Failed(output_results)))
       => (matches' = matches /\ errors' = Append(errors, ErrorRecord))]_vars

\* C2: at every loop boundary and at the return, total = matches + the
\* Mismatch records + the ExecutionError records, and matches <= total.
C2_TotalIsSum ==
  pc \in {"for", "done"} =>
    /\ total = matches + Len(errors)
    /\ Len(errors) = Cardinality({i \in DOMAIN errors : IsMismatchRecord(errors[i])})
                     + Cardinality({i \in DOMAIN errors : IsErrorRecord(errors[i])})
    /\ 0 <= matches
    /\ matches <= total

\* a run that returned with one match and one non-match record
C2_Witness == pc = "done" /\ matches = 1 /\ Len(errors) = 1 /\ total = 2

\* row i of a frame as a mapping from column name to cell (dtype and value)
RowAsMapping(df, i) ==
  {<<df.columns[j], df.dtypes[j], df.values[i][j]>> : j \in DOMAIN df.columns}

\* C3: two non-empty result sets holding the same rows as name-to-value
\* mappings, with the columns in a different order, compare as match.
C3_ColumnOrderIndependent ==
  (/\ cpc = "returned"
   /\ df1 # NoneVal /\ df2 # NoneVal
   /\ ~DfEmpty(df1) /\ ~DfEmpty(df2)
   /\ df1.columns # df2.columns
   /\ Len(df1.values) = Len(df2.values)
   /\ \A i \in DOMAIN df1.values : RowAsMapping(df1, i) = RowAsMapping(df2, i))
  => cres = TRUE

\* the dtypes of the two columns agree, or one holds integers and the other
\* floats or decimals
SameOrIntVersusDecimal(t1, t2) ==
  t1 = t2 \/ (t1 = "int64" /\ t2 # "int64") \/ (t2 = "int64" /\ t1 # "int64")

\* C4: numbers are compared by value: frames equal but for an integer column
\* against the equal float or decimal column match; 10 against 11 does not.
C4_NumericByValue ==
  (/\ cpc = "returned"
   /\ df1 # NoneVal /\ df2 # NoneVal
   /\ ~DfEmpty(df1) /\ ~DfEmpty(df2)
   /\ df1.columns = df2.columns
   /\ Len(df1.values) = Len(df2.values)
   /\ \A j \in DOMAIN df1.columns : SameOrIntVersusDecimal(df1.dtypes[j], df2.dtypes[j]))
  => /\ df1.values = df2.values => cres = TRUE
     /\ (Len(df1.values) = 1 /\ df1.values # df2.values) => cres = FALSE

\* how often row r occurs among rows
Multiplicity(rows, r) == Cardinality({i \in DOMAIN rows : rows[i] = r})

\* the same rows with the same multiplicities, in any order
SameRowsAnyOrder(rows1, rows2) ==
  /\ Len(rows1) = Len(rows2)
  /\ \A r \in Range(rows1) \cup Range(rows2) :
       Multiplicity(rows1, r) = Multiplicity(rows2, r)

\* C5: a result set matches itself and every permutation of its rows, duplicate
\* rows included; the same distinct rows in different numbers do not match.
C5_RowOrderIndependent ==
  (/\ cpc = "returned"
   /\ df1 # NoneVal /\ df2 # NoneVal
   /\ df1.columns = df2.columns
   /\ df1.dtypes = df2.dtypes)
  => /\ SameRowsAnyOrder(df1.values, df2.values) => cres = TRUE
     /\ (/\ Range(df1.values) = Range(df2.values)
         /\ Len(df1.values) # Len(df2.values)) => cres = FALSE

\* two different rows, fetched in opposite orders, compared as match
C5_Witness ==
  /\ cpc = "returned"
  /\ df1 # NoneVal /\ df2 # NoneVal
  /\ df1.columns = df2.columns /\ df1.dtypes = df2.dtypes
  /\ Len(df1.values) = 2
  /\ df1.values # df2.values
  /\ SameRowsAnyOrder(df1.values, df2.values)
  /\ cres = TRUE

\* C6: result sets whose column-name sets differ never match.
C6_ColumnSetsMustAgree ==
  (/\ cpc = "returned"
   /\ df1 # NoneVal /\ df2 # NoneVal
   /\ Range(df1.columns) # Range(df2.columns))
  => cres = FALSE

\* a one-column result against a two-column result that extends it, with the
\* same number of rows
C6_Witness ==
  /\ cpc = "returned"
  /\ df1 # NoneVal /\ df2 # NoneVal
  /\ df1.columns = <<"a">> /\ df2.columns = <<"a", "b">>
  /\ Len(df1.values) = Len(df2.values)
  /\ \A i \in DOMAIN df1.values : df1.values[i][1] = df2.values[i][1]
  /\ cres = FALSE

\* the prompts of a collection
PromptsOf(data) == {data[i].NL : i \in DOMAIN data}

\* the prompts present in both collections
CommonPrompts == PromptsOf(test_data) \cap PromptsOf(output_data)

\* the query of the last item of data with prompt p
LastQuery(data, p) ==
  LET last == CHOOSE i \in DOMAIN data :
                /\ data[i].NL = p
                /\ \A j \in DOMAIN data : data[j].NL = p => j <= i
  IN data[last].Query

\* C7: total is the number of distinct prompts present in both collections, the
\* last query of a repeated prompt is the one used, and a prompt present in one
\* collection only is not counted, not recorded, and has no query executed.
C7_TotalCountsCommonPrompts ==
  pc = "done" =>
    /\ total = Cardinality(CommonPrompts)
    /\ matches + Len(errors) = Cardinality(CommonPrompts)
    /\ \A i \in DOMAIN errors : errors[i].NL.s \in CommonPrompts
    /\ Range(calls) = {Str(LastQuery(test_data, p)) : p \in CommonPrompts}
                      \cup {Str(LastQuery(output_data, p)) : p \in CommonPrompts}
    /\ \A i \in DOMAIN errors :
         /\ errors[i].Expected = Str(LastQuery(test_data, errors[i].NL.s))
         /\ errors[i].Actual = Str(LastQuery(output_data, errors[i].NL.s))

\* the expected file repeats one prompt, the actual file holds it and another
C7_Witness ==
  /\ pc = "done"
  /\ total = 1
  /\ Len(test_data) = 2 /\ test_data[1].NL = test_data[2].NL
  /\ Len(output_data) = 2 /\ output_data[1].NL # output_data[2].NL
  /\ Len(calls) = 2

\* C8: accuracy is matches / total * 100 when total > 0 and exactly 0, with
\* matches = 0, when total = 0; it always lies in [0, 100].
C8_AccuracyInRange ==
  pc = "done" =>
    /\ total > 0 => /\ accuracy.den > 0
                    /\ accuracy.num * total = matches * 100 * accuracy.den
    /\ total = 0 => /\ accuracy = [kind |-> "int", num |-> 0, den |-> 1]
                    /\ matches = 0
    /\ accuracy.den > 0
    /\ 0 <= accuracy.num
    /\ accuracy.num <= 100 * accuracy.den

\* the expected file has prompts, none of them in the actual file
C8_Witness == pc = "done" /\ total = 0 /\ Len(test_data) > 0

\* C9: a connection execute_query opened is closed when it returns, whatever
\* the path; none is open when a call starts; at most one is open at a time.
C9_ConnectionsClosed ==
  /\ Cardinality(open) <= 1
  /\ epc \in {"idle", "connect", "return"} => open = {}
  /\ open \subseteq {Len(calls)}

\* the second call connected, failed later and has returned
C9_Witness ==
  /\ epc = "return"
  /\ Len(calls) = 2
  /\ conn # NoneVal
  /\ ret[1] = NoneVal

\* the prompts of data in the order of their first occurrence
RECURSIVE FirstOccurrences(_)
FirstOccurrences(data) ==
  IF data = <<>> THEN <<>>
  ELSE LET n == Len(data)
           before == FirstOccurrences(SubSeq(data, 1, n - 1))
       IN IF data[n].NL \in Range(before) THEN before ELSE Append(before, data[n].NL)

\* the calls of execute_query a complete run makes for the prompts in order
RECURSIVE CallsFor(_)
CallsFor(order) ==
  IF order = <<>> THEN <<>>
  ELSE LET p == Head(order)
       IN (IF p \in CommonPrompts
           THEN <<Str(LastQuery(test_data, p)), Str(LastQuery(output_data, p))>>
           ELSE <<>>) \o CallsFor(Tail(order))

\* the place of prompt p in the iteration over the expected mapping
PlaceOf(p) ==
  LET order == FirstOccurrences(test_data)
  IN CHOOSE i \in DOMAIN order : order[i] = p

\* the summary is returned after both queries of every paired prompt ran, pair
\* by pair in the order of the expected mapping, the records in that order
CompleteRun ==
  /\ pc = "done"
  /\ calls = CallsFor(FirstOccurrences(test_data))
  /\ total = Cardinality(CommonPrompts)
  /\ \A i, j \in DOMAIN errors :
       i < j => PlaceOf(errors[i].NL.s) < PlaceOf(errors[j].NL.s)

IsErrorEntry(entry) == "error" \in DOMAIN entry

\* process_queries returned one entry per item of each input list, in input
\* order; an error entry stands for a call that used up its attempts
ProcessQueriesOneEntryPerItem ==
  (gmode = "process_queries" /\ gpc = "done") =>
    /\ Len(nl_results) = Len(nl_queries)
    /\ \A i \in DOMAIN nl_results :
         /\ nl_results[i].id = nl_queries[i].id
         /\ IsErrorEntry(nl_results[i]) => tries[i] = MaxAttempts
    /\ Len(corrected_results) = Len(bad_queries)
    /\ \A i \in DOMAIN corrected_results :
         /\ corrected_results[i].id = bad_queries[i].id
         /\ IsErrorEntry(corrected_results[i]) =>
              tries[Len(nl_queries) + i] = MaxAttempts

\* generate_sqls returned one entry per item of data, in input order
GenerateSqlsOneEntryPerItem ==
  (gmode = "generate_sqls" /\ gpc \in {"gs_returned", "done", "AssertionError"}) =>
    /\ Len(sql_statements) = Len(gen_data)
    /\ \A i \in DOMAIN sql_statements : sql_statements[i].NL = gen_data[i].NL

\* C11: a failing language-model call is retried up to the attempt cap, then
\* recorded as an error marker, and the batch goes on: the output list holds
\* one entry per input item, in input order.
C11_OneEntryPerInputItem ==
  /\ attempt <= MaxAttempts
  /\ \A i \in DOMAIN tries : tries[i] <= MaxAttempts
  /\ ProcessQueriesOneEntryPerItem
  /\ GenerateSqlsOneEntryPerItem

\* C12: a failure while reading the schema, the failure to connect included,
\* is logged and does not propagate: the schema gathered so far is returned
\* and the constructor of SQLAgent completes.
C12_SchemaFailureContained ==
  /\ spc # "raised"
  /\ gpc # "aborted"
  /\ spc \in {"finally", "return"} => sexc = NoneVal
  /\ (gpc = "done" /\ gmode = "process_queries") => agent = [kind |-> "SQLAgent", schema |-> schema]
====
